---------------------------- MODULE Spec2Model ----------------------------
(***************************************************************************)
(* A model of the two scripts of the repository:                           *)
(*   scripts/convert_blmm_to_brs1.py   (BLMM .dat / FreeSurfer .pial       *)
(*                                      -> BRS1 / BRG1 containers + JSON)  *)
(*   scripts/demote_guide_headings.py  (markdown heading demotion)         *)
(*                                                                         *)
(* Bytes are naturals 0..255, byte strings are sequences of bytes.  A      *)
(* float32 is the record [s, e, m] of its IEEE-754 sign, biased exponent   *)
(* and mantissa; packing and unpacking compute the four bytes.             *)
(***************************************************************************)
EXTENDS Integers, Sequences, FiniteSets, TLC

VARIABLES pc, arg, ret, dirs, files

vars == <<pc, arg, ret, dirs, files>>

(***************************************************************************)
(* Bounds of the model.                                                    *)
(***************************************************************************)
\* The source fixes N_VERTICES = 10242 (fsaverage5); the model keeps the
\* name and scales the mesh resolution down.
N_VERTICES == 2

\* The meshes given to compute_vertex_normals: faces at most.
MaxFaces == 2

\* The documents given to demote_headings: lines at most.
MaxLines == 3

\* ------------------------------------------------------------------------
\* Sequences and bytes
\* ------------------------------------------------------------------------
RECURSIVE Flatten(_)
Flatten(ss) == IF ss = <<>> THEN <<>> ELSE Head(ss) \o Flatten(Tail(ss))

\* The first n elements, or all of them when there are fewer: f.read(n)
Take(s, n) == SubSeq(s, 1, IF n < Len(s) THEN n ELSE Len(s))

Drop(s, n) == SubSeq(s, n + 1, Len(s))

RECURSIVE Pow2(_)
Pow2(k) == IF k = 0 THEN 1 ELSE 2 * Pow2(k - 1)

\* struct.pack("<I", n)
PackLE32(n) ==
    << n % 256, (n \div 256) % 256, (n \div 65536) % 256, (n \div 16777216) % 256 >>

\* struct.unpack("<I", b)[0]
UnpackLE32(b) == b[1] + 256 * b[2] + 65536 * b[3] + 16777216 * b[4]

\* struct.pack(">I", n)
PackBE32(n) ==
    << (n \div 16777216) % 256, (n \div 65536) % 256, (n \div 256) % 256, n % 256 >>

\* struct.unpack(">I", b)[0]
UnpackBE32(b) == 16777216 * b[1] + 65536 * b[2] + 256 * b[3] + b[4]

\* ------------------------------------------------------------------------
\* float32
\* ------------------------------------------------------------------------
F32(s, e, m) == [s |-> s, e |-> e, m |-> m]

FZero == F32(0, 0, 0)
FOne == F32(0, 127, 0)
FNegOne == F32(1, 127, 0)
FNaN == F32(0, 255, 4194304)

\* np.isnan
IsNaN(f) == f.e = 255 /\ f.m # 0

\* The order of the non-NaN floats: sign-magnitude over (e, m).
FloatKey(f) ==
    LET mag == f.e * 8388608 + f.m
    IN  IF f.s = 1 THEN 0 - mag ELSE mag

\* The four bytes of a float32, most significant first.
FloatBytesBE(f) ==
    << f.s * 128 + f.e \div 2,
       (f.e % 2) * 128 + f.m \div 65536,
       (f.m \div 256) % 256,
       f.m % 256 >>

BytesBEFloat(b) ==
    F32(b[1] \div 128,
        (b[1] % 128) * 2 + b[2] \div 128,
        (b[2] % 128) * 65536 + b[3] * 256 + b[4])

Reverse4(b) == << b[4], b[3], b[2], b[1] >>

\* struct.pack("<f", x)
PackLEf(f) == Reverse4(FloatBytesBE(f))

\* struct.unpack("<f", b)[0]
UnpackLEf(b) == BytesBEFloat(Reverse4(b))

\* struct.pack(">f", x)
PackBEf(f) == FloatBytesBE(f)

\* struct.unpack(">f", b)[0]
UnpackBEf(b) == BytesBEFloat(b)

\* The samples written in the byte order of the surface files
ToBytes_BigEndian(a) == Flatten([i \in 1..Len(a) |-> PackBEf(a[i])])

\* ndarray.tobytes() of a float32 array (little-endian host)
ToBytes(a) == Flatten([i \in 1..Len(a) |-> PackLEf(a[i])])

\* np.frombuffer(b, dtype=np.float32): the inverse reading of n floats
FromBytes(b, n) == [i \in 1..n |-> UnpackLEf(SubSeq(b, 4 * (i - 1) + 1, 4 * i))]

\* np.min / np.max over a non-empty array without NaN
RECURSIVE ArrMin(_)
ArrMin(a) ==
    IF Len(a) = 1 THEN a[1]
    ELSE LET r == ArrMin(Tail(a))
         IN  IF FloatKey(a[1]) <= FloatKey(r) THEN a[1] ELSE r

RECURSIVE ArrMax(_)
ArrMax(a) ==
    IF Len(a) = 1 THEN a[1]
    ELSE LET r == ArrMax(Tail(a))
         IN  IF FloatKey(a[1]) >= FloatKey(r) THEN a[1] ELSE r

NotNaN(f) == ~IsNaN(f)

\* ------------------------------------------------------------------------
\* The output file system: the directories that exist and the files.
\* ------------------------------------------------------------------------
NoFile == [kind |-> "absent"]

\* gzip.open(path, "wb").write(data): a gzip member holding data
GzipFile(data) == [kind |-> "gzip", data |-> data]

\* output_path.parent.mkdir(parents=True, exist_ok=True) and the write
WriteGzip(fs, path, data) ==
    [dirs  |-> fs.dirs \cup {path.parent},
     files |-> [fs.files EXCEPT ![path.name] = GzipFile(data)]]

\* ------------------------------------------------------------------------
\* convert_dat_to_brs1
\* ------------------------------------------------------------------------
Brs1Magic == << 66, 82, 83, 49 >>

\* data[v] of data = raw_data.reshape((n_volumes, n_vertices)), v from 0
VolData(raw_data, v) == SubSeq(raw_data, v * N_VERTICES + 1, (v + 1) * N_VERTICES)

\* (min, max) of the non-NaN values, (0.0, 0.0) when there are none
RangeOf(valid) ==
    IF Len(valid) > 0 THEN << ArrMin(valid), ArrMax(valid) >> ELSE << FZero, FZero >>

NanCount(raw_data) == Len(SelectSeq(raw_data, IsNaN))

\* The global range taken over the first volume only
GlobalRange_FirstVolume(raw_data) ==
    RangeOf(SelectSeq(Take(raw_data, N_VERTICES), NotNaN))

GlobalRange(raw_data) ==
    LET nan_count  == NanCount(raw_data)
        valid_data == IF nan_count > 0 THEN SelectSeq(raw_data, NotNaN) ELSE raw_data
    IN  RangeOf(valid_data)

\* The per-volume ranges without the NaN mask
VolumeRanges_WithNaN(raw_data, n_volumes) ==
    [k \in 1..n_volumes |-> RangeOf(VolData(raw_data, k - 1))]

VolumeRanges(raw_data, n_volumes) ==
    [k \in 1..n_volumes |-> RangeOf(SelectSeq(VolData(raw_data, k - 1), NotNaN))]

Brs1Buffer(raw_data, n_volumes) ==
    LET g  == GlobalRange(raw_data)
        vr == VolumeRanges(raw_data, n_volumes)
    IN  Brs1Magic
        \o PackLE32(1)
        \o PackLE32(0)
        \o PackLE32(N_VERTICES)
        \o PackLE32(n_volumes)
        \o PackLEf(g[1])
        \o PackLEf(g[2])
        \o PackLE32(NanCount(raw_data))
        \o Flatten([k \in 1..n_volumes |-> PackLEf(vr[k][1]) \o PackLEf(vr[k][2])])
        \o ToBytes(raw_data)

\* convert_dat_to_brs1 taking the caller's expected_volumes for the volume
\* count instead of deriving it
ConvertDatToBrs1_ExpectedVolumes(raw_data, output_path, expected_volumes, fs) ==
    LET n_values  == Len(raw_data)
        n_volumes == expected_volumes
    IN  IF n_values # N_VERTICES * n_volumes
        THEN [exc |-> "ValueError", warned |-> FALSE, fs |-> fs]
        ELSE [exc |-> "none", warned |-> FALSE,
              fs |-> WriteGzip(fs, output_path, Brs1Buffer(raw_data, n_volumes))]

\* The call's outcome: the exception raised ("none" when it returns), whether
\* the volume-count warning was printed, and the file system it leaves.
ConvertDatToBrs1(raw_data, output_path, expected_volumes, fs) ==
    LET n_values  == Len(raw_data)
        n_volumes == n_values \div N_VERTICES
        warned    == n_volumes # expected_volumes
    IN  IF n_values # N_VERTICES * n_volumes
        THEN [exc |-> "ValueError", warned |-> warned, fs |-> fs]
        ELSE [exc |-> "none", warned |-> warned,
              fs |-> WriteGzip(fs, output_path, Brs1Buffer(raw_data, n_volumes))]

\* ------------------------------------------------------------------------
\* read_freesurfer_surface
\* ------------------------------------------------------------------------
FsMagic == << 255, 255, 254 >>

Newline == 10

\* The comment loop: f.read(1) from 1-based position i until the bytes read
\* end with two newlines.  n is the number of comment bytes read so far,
\* last whether the previous byte was a newline.  The result is the position
\* of the first byte after the terminator, or 0 when the stream ends first.
RECURSIVE CommentEnd(_, _, _, _)
CommentEnd(stream, i, n, last) ==
    IF i > Len(stream) THEN 0
    ELSE IF n >= 1 /\ last /\ stream[i] = Newline THEN i + 1
    ELSE CommentEnd(stream, i + 1, n + 1, stream[i] = Newline)

NoSurface == [vertices |-> <<>>, faces |-> <<>>]

Raised(e) == [exc |-> e, returned |-> FALSE, surface |-> NoSurface]

\* f.read(4) at 1-based position p; struct.unpack needs all four bytes
Read4(stream, p) == SubSeq(stream, p, p + 3)

ReadVertex(stream, p) ==
    << UnpackBEf(Read4(stream, p)), UnpackBEf(Read4(stream, p + 4)),
       UnpackBEf(Read4(stream, p + 8)) >>

ReadFace(stream, p) ==
    << UnpackBE32(Read4(stream, p)), UnpackBE32(Read4(stream, p + 4)),
       UnpackBE32(Read4(stream, p + 8)) >>

ReadFreesurferSurface(stream) ==
    IF Take(stream, 3) # FsMagic THEN Raised("ValueError")
    ELSE LET c == CommentEnd(stream, 4, 0, FALSE)
         IN  IF c = 0 THEN Raised("ValueError")
             ELSE IF Len(stream) < c + 7 THEN Raised("struct.error")
             ELSE LET n_vertices == UnpackBE32(Read4(stream, c))
                      n_faces    == UnpackBE32(Read4(stream, c + 4))
                      v0         == c + 8
                      f0         == v0 + 12 * n_vertices
                  IN  IF Len(stream) < f0 - 1 THEN Raised("struct.error")
                      ELSE IF Len(stream) < f0 + 12 * n_faces - 1
                      THEN Raised("struct.error")
                      ELSE [exc |-> "none", returned |-> TRUE,
                            surface |->
                              [vertices |-> [i \in 1..n_vertices |->
                                               ReadVertex(stream, v0 + 12 * (i - 1))],
                               faces |-> [i \in 1..n_faces |->
                                            ReadFace(stream, f0 + 12 * (i - 1))]]]

\* ------------------------------------------------------------------------
\* compute_vertex_normals
\*
\* The arithmetic is exact integer arithmetic on the values of the floats:
\* the meshes of the model have small integer coordinates and lie in the
\* plane z = 0, where every cross product is (0, 0, k) and float32
\* arithmetic, square roots and divisions included, is exact.
\* ------------------------------------------------------------------------
RECURSIVE Log2(_)
Log2(a) == IF a <= 1 THEN 0 ELSE 1 + Log2(a \div 2)

Abs(x) == IF x < 0 THEN 0 - x ELSE x

\* The value of an integer-valued float32
FloatVal(f) ==
    IF f.e = 0 /\ f.m = 0 THEN 0
    ELSE LET a == ((8388608 + f.m) * Pow2(f.e - 127)) \div 8388608
         IN  IF f.s = 1 THEN 0 - a ELSE a

\* The float32 of a small integer
ValFloat(x) ==
    IF x = 0 THEN FZero
    ELSE LET a == Abs(x)
             k == Log2(a)
         IN  F32(IF x < 0 THEN 1 ELSE 0, 127 + k, (a - Pow2(k)) * Pow2(23 - k))

VecVal(v) == << FloatVal(v[1]), FloatVal(v[2]), FloatVal(v[3]) >>

VecFloat(v) == << ValFloat(v[1]), ValFloat(v[2]), ValFloat(v[3]) >>

VecSub(a, b) == << a[1] - b[1], a[2] - b[2], a[3] - b[3] >>

VecAdd(a, b) == << a[1] + b[1], a[2] + b[2], a[3] + b[3] >>

\* np.cross
Cross(a, b) ==
    << a[2] * b[3] - a[3] * b[2], a[3] * b[1] - a[1] * b[3], a[1] * b[2] - a[2] * b[1] >>

ISqrt(n) == CHOOSE r \in 0..n : r * r <= n /\ n < (r + 1) * (r + 1)

\* np.linalg.norm
Norm(v) == ISqrt(v[1] * v[1] + v[2] * v[2] + v[3] * v[3])

VecDiv(v, d) == << v[1] \div d, v[2] \div d, v[3] \div d >>

\* x > 1e-10 for a magnitude x, which is 0 or at least 1 on these meshes
AboveEps(x) == x > 0

\* The face normal added to the three vertices of a face
FaceNormal(vertices, face) ==
    LET v0    == vertices[face[1] + 1]
        v1    == vertices[face[2] + 1]
        v2    == vertices[face[3] + 1]
        edge1 == VecSub(v1, v0)
        edge2 == VecSub(v2, v0)
        fn    == Cross(edge1, edge2)
        norm  == Norm(fn)
    IN  IF AboveEps(norm) THEN VecDiv(fn, norm) ELSE fn

\* normals[face[k]] += face_normal for k = 0, 1, 2, one after the other
AddToFace(normals, face, fn) ==
    LET n1 == [normals EXCEPT ![face[1] + 1] = VecAdd(@, fn)]
        n2 == [n1 EXCEPT ![face[2] + 1] = VecAdd(@, fn)]
    IN  [n2 EXCEPT ![face[3] + 1] = VecAdd(@, fn)]

\* The accumulators after the loop over the faces
RECURSIVE Accumulate(_, _, _)
Accumulate(vertices, faces, normals) ==
    IF faces = <<>> THEN normals
    ELSE Accumulate(vertices, Tail(faces),
                    AddToFace(normals, Head(faces), FaceNormal(vertices, Head(faces))))

\* The accumulated normal returned without the final normalisation
Normalize_Skip(n) == n

\* norms[norms < 1e-10] = 1.0; normals /= norms
Normalize(n) ==
    LET norms == Norm(n)
    IN  VecDiv(n, IF AboveEps(norms) THEN norms ELSE 1)

FaceInRange(face, n) == \A k \in 1..3 : face[k] < n

\* vertices[face[k]] raises IndexError for an index that is out of bounds
ComputeVertexNormals(vertices, faces) ==
    IF \E i \in 1..Len(faces) : ~FaceInRange(faces[i], Len(vertices))
    THEN [exc |-> "IndexError", normals |-> <<>>]
    ELSE LET vals == [i \in 1..Len(vertices) |-> VecVal(vertices[i])]
             zero == [i \in 1..Len(vertices) |-> << 0, 0, 0 >>]
             acc  == Accumulate(vals, faces, zero)
         IN  [exc |-> "none",
              normals |-> [i \in 1..Len(vertices) |-> VecFloat(Normalize(acc[i]))]]

\* ------------------------------------------------------------------------
\* convert_pial_to_brg1
\* ------------------------------------------------------------------------
Brg1Magic == << 66, 82, 71, 49 >>

PackLEfff(v) == PackLEf(v[1]) \o PackLEf(v[2]) \o PackLEf(v[3])

PackLEIII(f) == PackLE32(f[1]) \o PackLE32(f[2]) \o PackLE32(f[3])

Brg1Buffer(vertices, normals, faces) ==
    Brg1Magic
    \o PackLE32(1)
    \o PackLE32(0)
    \o PackLE32(Len(vertices))
    \o PackLE32(Len(faces))
    \o Flatten([i \in 1..Len(vertices) |-> PackLEfff(vertices[i])])
    \o Flatten([i \in 1..Len(normals) |-> PackLEfff(normals[i])])
    \o Flatten([i \in 1..Len(faces) |-> PackLEIII(faces[i])])

\* convert_pial_to_brg1 opening the output before it reads the surface
ConvertPialToBrg1_OpenFirst(stream, output_path, fs) ==
    LET opened == WriteGzip(fs, output_path, <<>>)
        rd     == ReadFreesurferSurface(stream)
    IN  IF rd.exc # "none" THEN [exc |-> rd.exc, fs |-> opened]
        ELSE LET vertices == rd.surface.vertices
                 faces    == rd.surface.faces
                 nr       == ComputeVertexNormals(vertices, faces)
             IN  IF nr.exc # "none" THEN [exc |-> nr.exc, fs |-> opened]
                 ELSE [exc |-> "none",
                       fs |-> WriteGzip(fs, output_path,
                                        Brg1Buffer(vertices, nr.normals, faces))]

ConvertPialToBrg1(stream, output_path, fs) ==
    LET rd == ReadFreesurferSurface(stream)
    IN  IF rd.exc # "none" THEN [exc |-> rd.exc, fs |-> fs]
        ELSE LET vertices == rd.surface.vertices
                 faces    == rd.surface.faces
                 nr       == ComputeVertexNormals(vertices, faces)
             IN  IF nr.exc # "none" THEN [exc |-> nr.exc, fs |-> fs]
                 ELSE [exc |-> "none",
                       fs |-> WriteGzip(fs, output_path,
                                        Brg1Buffer(vertices, nr.normals, faces))]

\* ------------------------------------------------------------------------
\* Calls of the conversion functions on bounded inputs
\* ------------------------------------------------------------------------
OutPath == [parent |-> "out", name |-> "out.bin.gz"]

\* A file left at the output path by an earlier run.
OldFile == GzipFile(<< 79, 76, 68 >>)

RECURSIVE SeqsUpTo(_, _)
SeqsUpTo(S, n) ==
    IF n = 0 THEN {<<>>}
    ELSE LET shorter == SeqsUpTo(S, n - 1)
         IN  shorter \cup {Append(s, x) : s \in {t \in shorter : Len(t) = n - 1}, x \in S}

\* Sample arrays: up to two volumes and one sample more.
SampleValues == {FOne, FNegOne, FNaN}

MaxSamples == 2 * N_VERTICES + 1

SampleArrays == SeqsUpTo(SampleValues, MaxSamples)

ExpectedVolumes == {1, 2}

\* Meshes in the plane z = 0: vertex i (from 0) is the i-th of these points.
\* The triangles over them have different areas and both orientations.
MeshPoints == << << 0, 0, 0 >>, << 1, 0, 0 >>, << 0, 1, 0 >>, << 2, 2, 0 >> >>

GridVertices(n) == [i \in 1..n |-> VecFloat(MeshPoints[i])]

\* The faces over n vertices, each listed from its lowest-numbered vertex (a
\* rotation of a face names the same vertices and has the same normal).
FaceTriples(n) ==
    {t \in {<< a, b, c >> : a \in 0..(n - 1), b \in 0..(n - 1), c \in 0..(n - 1)} :
        t[1] <= t[2] /\ t[1] <= t[3]}

\* A surface file: magic, comment, terminator, counts, vertices, faces.
PialStream(magic, comment, vertices, faces) ==
    magic
    \o comment
    \o << Newline, Newline >>
    \o PackBE32(Len(vertices))
    \o PackBE32(Len(faces))
    \o Flatten([i \in 1..Len(vertices) |->
                  PackBEf(vertices[i][1]) \o PackBEf(vertices[i][2]) \o PackBEf(vertices[i][3])])
    \o Flatten([i \in 1..Len(faces) |->
                  PackBE32(faces[i][1]) \o PackBE32(faces[i][2]) \o PackBE32(faces[i][3])])

PialMeshes ==
    { [vertices |-> GridVertices(0), faces |-> <<>>],
      [vertices |-> GridVertices(2), faces |-> <<>>],
      [vertices |-> GridVertices(3), faces |-> << << 0, 1, 2 >> >>],
      [vertices |-> GridVertices(3), faces |-> << << 0, 0, 1 >> >>],
      [vertices |-> GridVertices(3), faces |-> << << 0, 1, 3 >> >>],
      [vertices |-> GridVertices(3), faces |-> << << 0, 1, 2 >>, << 0, 2, 1 >> >>] }

PialMagics == {FsMagic, << 255, 255, 255 >>}

PialComments == {<<>>, << 99 >>, << 99, Newline, 99 >>}

\* The descriptions of the surface files of the model: a well-formed file
\* with a chosen magic, cut after its first cut bytes.
PialInputs ==
    UNION { { [magic |-> mg, comment |-> cm, mesh |-> m, cut |-> k] :
                k \in 0..Len(PialStream(mg, cm, m.vertices, m.faces)) } :
            mg \in PialMagics, cm \in PialComments, m \in PialMeshes }

StreamOf(in) == Take(PialStream(in.magic, in.comment, in.mesh.vertices, in.mesh.faces), in.cut)

Fs == [dirs |-> dirs, files |-> files]

Init ==
    /\ pc = "idle"
    /\ arg = [op |-> "none"]
    /\ ret = [exc |-> "none"]
    /\ dirs \in {{}, {OutPath.parent}}
    /\ files \in [{OutPath.name} -> {NoFile, OldFile}]
    /\ (files[OutPath.name] # NoFile => OutPath.parent \in dirs)

ReadSurface ==
    /\ pc = "idle"
    /\ \E in \in PialInputs :
         LET r == ReadFreesurferSurface(StreamOf(in))
         IN  /\ arg' = [op |-> "read_freesurfer_surface", in |-> in]
             /\ ret' = [exc |-> r.exc, returned |-> r.returned, surface |-> r.surface]
             /\ pc' = IF r.exc = "none" THEN "returned" ELSE "raised"
    /\ UNCHANGED << dirs, files >>

ComputeNormals ==
    /\ pc = "idle"
    /\ \E n \in 0..Len(MeshPoints) :
         \E faces \in SeqsUpTo(FaceTriples(n), MaxFaces) :
           LET r == ComputeVertexNormals(GridVertices(n), faces)
           IN  /\ arg' = [op |-> "compute_vertex_normals",
                          vertices |-> GridVertices(n), faces |-> faces]
               /\ ret' = [exc |-> r.exc, normals |-> r.normals]
               /\ pc' = IF r.exc = "none" THEN "returned" ELSE "raised"
    /\ UNCHANGED << dirs, files >>

ConvertPial ==
    /\ pc = "idle"
    /\ \E in \in PialInputs :
         LET r == ConvertPialToBrg1(StreamOf(in), OutPath, Fs)
         IN  /\ arg' = [op |-> "convert_pial_to_brg1", in |-> in]
             /\ ret' = [exc |-> r.exc]
             /\ dirs' = r.fs.dirs
             /\ files' = r.fs.files
             /\ pc' = IF r.exc = "none" THEN "returned" ELSE "raised"

ConvertDat ==
    /\ pc = "idle"
    /\ \E raw_data \in SampleArrays, expected_volumes \in ExpectedVolumes :
         LET r == ConvertDatToBrs1(raw_data, OutPath, expected_volumes, Fs)
         IN  /\ arg' = [op |-> "convert_dat_to_brs1", raw_data |-> raw_data,
                        expected_volumes |-> expected_volumes]
             /\ ret' = [exc |-> r.exc, warned |-> r.warned]
             /\ dirs' = r.fs.dirs
             /\ files' = r.fs.files
             /\ pc' = IF r.exc = "none" THEN "returned" ELSE "raised"

Next == ReadSurface \/ ConvertPial \/ ConvertDat

Spec == Init /\ [][Next]_vars

\* compute_vertex_normals alone: it reads and writes no file.
InitNormals ==
    /\ pc = "idle"
    /\ arg = [op |-> "none"]
    /\ ret = [exc |-> "none"]
    /\ dirs = {}
    /\ files = [p \in {OutPath.name} |-> NoFile]

NextNormals == ComputeNormals

SpecNormals == InitNormals /\ [][NextNormals]_vars

\* ------------------------------------------------------------------------
\* A reader of the STAT-CONTAINER layout, used to state the properties
\* ------------------------------------------------------------------------
Field(buf, off) == SubSeq(buf, off + 1, off + 4)

DecodeBrs1(buf) ==
    LET n_vertices == UnpackLE32(Field(buf, 12))
        n_volumes  == UnpackLE32(Field(buf, 16))
        data0      == 32 + 8 * n_volumes
    IN  [magic      |-> Take(buf, 4),
         n_vertices |-> n_vertices,
         n_volumes  |-> n_volumes,
         global_min |-> UnpackLEf(Field(buf, 20)),
         global_max |-> UnpackLEf(Field(buf, 24)),
         nan_count  |-> UnpackLE32(Field(buf, 28)),
         ranges     |-> [k \in 1..n_volumes |->
                           << UnpackLEf(Field(buf, 32 + 8 * (k - 1))),
                              UnpackLEf(Field(buf, 36 + 8 * (k - 1))) >>],
         data_bytes |-> Len(buf) - data0,
         data       |-> FromBytes(Drop(buf, data0), (Len(buf) - data0) \div 4)]

DatCalled == arg.op = "convert_dat_to_brs1"

DatReturned == DatCalled /\ pc = "returned"

Written == DecodeBrs1(files[OutPath.name].data)

\* The non-NaN samples at the positions I of the array
ValidAt(raw_data, I) == {raw_data[i] : i \in {j \in I : ~IsNaN(raw_data[j])}}

Leq(x, y) == FloatKey(x) <= FloatKey(y)

\* range is the (min, max) of the set S, or (0.0, 0.0) when S is empty
IsRangeOf(range, S) ==
    IF S = {} THEN range = << FZero, FZero >>
    ELSE /\ range[1] \in S /\ \A y \in S : Leq(range[1], y)
         /\ range[2] \in S /\ \A y \in S : Leq(y, range[2])

BlockOf(v) == ((v - 1) * N_VERTICES + 1)..(v * N_VERTICES)

\* C2: a conversion (convert_pial_to_brg1 or convert_dat_to_brs1) that fails
\* leaves the output files as they were: none is created, none is modified,
\* and no directory is made.
C2_FailedConversionWritesNothing ==
    [][(pc' = "raised" /\ arg'.op \in {"convert_pial_to_brg1", "convert_dat_to_brs1"})
         => (files' = files /\ dirs' = dirs)]_vars

C2_Witness ==
    /\ pc = "raised"
    /\ arg.op = "convert_pial_to_brg1"
    /\ ret.exc = "IndexError"
    /\ files[OutPath.name] = OldFile

\* C3: a sample array whose length is no multiple of the vertex count makes
\* convert_dat_to_brs1 raise ValueError and write nothing; otherwise the header
\* written has n_volumes * n_vertices = len(samples), n_volumes the quotient
\* whatever the expected volume count, and the data section holds every sample.
C3_VolumeDivision ==
    DatCalled =>
        IF Len(arg.raw_data) % N_VERTICES # 0
        THEN /\ pc = "raised"
             /\ ret.exc = "ValueError"
             /\ files[OutPath.name] \in {NoFile, OldFile}
        ELSE /\ pc = "returned"
             /\ Written.n_vertices = N_VERTICES
             /\ Written.n_volumes * Written.n_vertices = Len(arg.raw_data)
             /\ Written.n_volumes = Len(arg.raw_data) \div N_VERTICES
             /\ Written.data_bytes = 4 * Len(arg.raw_data)

C3_Witness ==
    /\ DatReturned
    /\ ret.warned
    /\ arg.expected_volumes = 1
    /\ Len(arg.raw_data) = 2 * N_VERTICES
    /\ Written.n_volumes = 2

\* C4: the global range written is the minimum and maximum of exactly the
\* non-NaN samples, each volume's range those of the non-NaN samples of its
\* block, (0.0, 0.0) and never NaN where there is no such sample, and
\* nan_count is the number of NaN samples.
C4_RangesExcludeNaN ==
    DatReturned =>
        LET raw == arg.raw_data
            w   == Written
        IN  /\ IsRangeOf(<< w.global_min, w.global_max >>, ValidAt(raw, DOMAIN raw))
            /\ ~IsNaN(w.global_min) /\ ~IsNaN(w.global_max)
            /\ Len(w.ranges) = Len(raw) \div N_VERTICES
            /\ \A v \in 1..Len(w.ranges) :
                 /\ IsRangeOf(w.ranges[v], ValidAt(raw, BlockOf(v)))
                 /\ ~IsNaN(w.ranges[v][1]) /\ ~IsNaN(w.ranges[v][2])
            /\ w.nan_count = Cardinality({i \in DOMAIN raw : IsNaN(raw[i])})

C4_Witness ==
    /\ DatReturned
    /\ Written.n_volumes = 2
    /\ ValidAt(arg.raw_data, BlockOf(1)) = {}
    /\ ValidAt(arg.raw_data, BlockOf(2)) = {FOne, FNegOne}
    /\ Written.ranges = << << FZero, FZero >>, << FNegOne, FOne >> >>
    /\ Written.global_min = FNegOne
    /\ Written.global_max = FOne
    /\ Written.nan_count >= N_VERTICES

\* C5: reading the data section of the STAT-CONTAINER written gives back the
\* sample array: the same length, the same order, every value the same and
\* NaN exactly where it was.
C5_RoundTrip ==
    DatReturned =>
        /\ Written.magic = Brs1Magic
        /\ Written.data = arg.raw_data
        /\ \A i \in DOMAIN arg.raw_data : IsNaN(Written.data[i]) <=> IsNaN(arg.raw_data[i])

C5_Witness ==
    /\ DatReturned
    /\ Len(arg.raw_data) = 2 * N_VERTICES
    /\ arg.raw_data[1] = FNegOne
    /\ IsNaN(arg.raw_data[2])
    /\ arg.raw_data[N_VERTICES + 1] = FOne
    /\ Written.data = arg.raw_data

\* C10 (as claimed): every volume's range lies inside the global range.
VolumeInsideGlobal(w, v) ==
    /\ Leq(w.global_min, w.ranges[v][1])
    /\ Leq(w.ranges[v][1], w.ranges[v][2])
    /\ Leq(w.ranges[v][2], w.global_max)

C10_Claimed ==
    DatReturned => \A v \in 1..Written.n_volumes : VolumeInsideGlobal(Written, v)

\* C10: the range of every volume that has a non-NaN sample lies inside the
\* global range; a volume that has none has the range (0.0, 0.0), wherever
\* the global range lies.
C10_VolumeRangeInsideGlobal ==
    DatReturned =>
        \A v \in 1..Written.n_volumes :
            IF ValidAt(arg.raw_data, BlockOf(v)) # {}
            THEN VolumeInsideGlobal(Written, v)
            ELSE Written.ranges[v] = << FZero, FZero >>

C10_Witness ==
    /\ DatReturned
    /\ Written.n_volumes = 2
    /\ ValidAt(arg.raw_data, BlockOf(1)) # {}
    /\ ValidAt(arg.raw_data, BlockOf(2)) = {}
    /\ Written.global_min = FOne
    /\ Written.ranges[2] = << FZero, FZero >>

\* ------------------------------------------------------------------------
\* read_freesurfer_surface on truncated streams
\* ------------------------------------------------------------------------
FullLen(in) == Len(PialStream(in.magic, in.comment, in.mesh.vertices, in.mesh.faces))

\* The stream has the magic and a terminated comment and ends inside the
\* counts, the vertex triples or the face triples.
TruncatedData(in) ==
    /\ in.magic = FsMagic
    /\ in.cut >= 3 + Len(in.comment) + 2
    /\ in.cut < FullLen(in)

\* C6 (as claimed): on a stream cut inside the counts, the vertices or the
\* faces, read_freesurfer_surface raises the error it raises for a wrong
\* magic and for a truncated comment (ValueError), and returns no surface.
C6_TruncatedDataIsFormatError ==
    (arg.op = "read_freesurfer_surface" /\ TruncatedData(arg.in))
        => (ret.exc = "ValueError" /\ ~ret.returned)

\* ------------------------------------------------------------------------
\* compute_vertex_normals
\* ------------------------------------------------------------------------
Sign(x) == IF x > 0 THEN 1 ELSE IF x < 0 THEN 0 - 1 ELSE 0

\* The orientation of a face of a mesh in the plane z = 0: the sign of twice
\* its signed area, 0 for a degenerate face.
Orient(vertices, face) ==
    LET p0 == VecVal(vertices[face[1] + 1])
        p1 == VecVal(vertices[face[2] + 1])
        p2 == VecVal(vertices[face[3] + 1])
    IN  Sign((p1[1] - p0[1]) * (p2[2] - p0[2]) - (p2[1] - p0[1]) * (p1[2] - p0[2]))

\* How often face names vertex i (from 0)
Mentions(face, i) == Cardinality({k \in 1..3 : face[k] = i})

\* The sum of the orientations of the faces at vertex i, each counted as
\* often as the face names the vertex
RECURSIVE OrientSum(_, _, _)
OrientSum(vertices, faces, i) ==
    IF faces = <<>> THEN 0
    ELSE Mentions(Head(faces), i) * Orient(vertices, Head(faces))
         + OrientSum(vertices, Tail(faces), i)

InNonDegenerateFace(vertices, faces, i) ==
    \E k \in 1..Len(faces) : Mentions(faces[k], i) > 0 /\ Orient(vertices, faces[k]) # 0

MagSq(n) ==
    LET v == VecVal(n) IN v[1] * v[1] + v[2] * v[2] + v[3] * v[3]

NormalsCalled == arg.op = "compute_vertex_normals"

NL == "\n"

IsSpace(c) == c \in {" ", "\t"}

\* str.lower() on the letters of the model
Lower(c) == IF c = "A" THEN "a" ELSE IF c = "B" THEN "b" ELSE c

RECURSIVE LStrip(_)
LStrip(t) == IF t # <<>> /\ IsSpace(Head(t)) THEN LStrip(Tail(t)) ELSE t

RECURSIVE RStrip(_)
RStrip(t) ==
    IF t # <<>> /\ IsSpace(t[Len(t)]) THEN RStrip(SubSeq(t, 1, Len(t) - 1)) ELSE t

\* title.strip().lower()
NormalizeTitle(title) ==
    LET t == RStrip(LStrip(title)) IN [i \in 1..Len(t) |-> Lower(t[i])]

\* content.split('\n')
RECURSIVE Split(_)
Split(content) ==
    IF \A i \in 1..Len(content) : content[i] # NL THEN << content >>
    ELSE LET k == CHOOSE i \in 1..Len(content) :
                    content[i] = NL /\ \A j \in 1..(i - 1) : content[j] # NL
         IN  << SubSeq(content, 1, k - 1) >> \o Split(Drop(content, k))

\* '\n'.join(lines)
RECURSIVE Join(_)
Join(lines) ==
    IF Len(lines) = 0 THEN <<>>
    ELSE IF Len(lines) = 1 THEN lines[1]
    ELSE lines[1] \o << NL >> \o Join(Tail(lines))

\* The number of leading '#' of t
RECURSIVE HashRun(_)
HashRun(t) == IF t # <<>> /\ Head(t) = "#" THEN 1 + HashRun(Tail(t)) ELSE 0

\* The number of leading white-space characters of t
RECURSIVE SpaceRun(_)
SpaceRun(t) == IF t # <<>> /\ IsSpace(Head(t)) THEN 1 + SpaceRun(Tail(t)) ELSE 0

Hashes(n) == [i \in 1..n |-> "#"]

NoMatch == [matched |-> FALSE, level |-> 0, title |-> <<>>]

\* re.compile(r'^(#{2,6})\s+(.+)$').match(line): the hashes are all the
\* leading ones, two to six of them; the white space after them is taken
\* greedily and gives its last character back when nothing follows it.
HeadingMatch(line) ==
    LET h    == HashRun(line)
        w    == SpaceRun(Drop(line, h))
        rest == Drop(line, h + w)
    IN  IF h < 2 \/ h > 6 \/ w < 1 THEN NoMatch
        ELSE IF rest # <<>> THEN [matched |-> TRUE, level |-> h, title |-> rest]
        ELSE IF w >= 2 THEN [matched |-> TRUE, level |-> h, title |-> << line[Len(line)] >>]
        ELSE NoMatch

InSpine(title, spine_normalized) ==
    \E i \in 1..Len(spine_normalized) : spine_normalized[i] = NormalizeTitle(title)

\* The loop body without the reset of in_demoted_section at a spine H2
DemoteLine_NoReset(line, in_demoted_section, spine_normalized) ==
    LET match == HeadingMatch(line)
    IN  IF match.matched
        THEN IF match.level = 2
             THEN IF InSpine(match.title, spine_normalized)
                  THEN [line |-> line, flag |-> in_demoted_section]
                  ELSE [line |-> Hashes(3) \o << " " >> \o match.title, flag |-> TRUE]
             ELSE IF in_demoted_section
                  THEN [line |-> Hashes(match.level + 1) \o << " " >> \o match.title,
                        flag |-> in_demoted_section]
                  ELSE [line |-> line, flag |-> in_demoted_section]
        ELSE [line |-> line, flag |-> in_demoted_section]

\* One iteration of the loop over the lines: the line appended to result and
\* the value of in_demoted_section after it.
DemoteLine(line, in_demoted_section, spine_normalized) ==
    LET match == HeadingMatch(line)
    IN  IF match.matched
        THEN IF match.level = 2
             THEN IF InSpine(match.title, spine_normalized)
                  THEN [line |-> line, flag |-> FALSE]
                  ELSE [line |-> Hashes(3) \o << " " >> \o match.title, flag |-> TRUE]
             ELSE IF in_demoted_section
                  THEN [line |-> Hashes(match.level + 1) \o << " " >> \o match.title,
                        flag |-> in_demoted_section]
                  ELSE [line |-> line, flag |-> in_demoted_section]
        ELSE [line |-> line, flag |-> in_demoted_section]

RECURSIVE DemoteLines(_, _, _)
DemoteLines(lines, in_demoted_section, spine_normalized) ==
    IF lines = <<>> THEN <<>>
    ELSE LET r == DemoteLine(Head(lines), in_demoted_section, spine_normalized)
         IN  << r.line >> \o DemoteLines(Tail(lines), r.flag, spine_normalized)

SpineNormalized(spine) == [i \in 1..Len(spine) |-> NormalizeTitle(spine[i])]

DemoteHeadings(content, spine) ==
    Join(DemoteLines(Split(content), FALSE, SpineNormalized(spine)))

\* The documents of the model: up to MaxLines lines out of these.
GuideLines ==
    { <<>>,
      << "b" >>,
      << "#", " ", "A" >>,
      << "#", "#", "A" >>,
      << "#", "#", " ", "A" >>,
      << "#", "#", " ", "a", " " >>,
      << "#", "#", " ", "b" >>,
      << "#", "#", "\t", "B" >>,
      << "#", "#", " ", " " >>,
      << "#", "#", "#", " ", "A" >>,
      << "#", "#", "#", " ", " ", "b" >>,
      << "#", "#", "#", "#", "#", " ", "b" >>,
      << "#", "#", "#", "#", "#", "#", " ", "b" >>,
      << "#", "#", "#", "#", "#", "#", "#", " ", "b" >> }

GuideSpines == { << << "A" >> >>, << << " ", "a" >>, << "B" >> >> }

GuideContents == {Join(ls) : ls \in SeqsUpTo(GuideLines, MaxLines) \ {<<>>}}

InitDemote ==
    /\ pc = "idle"
    /\ arg = [op |-> "none"]
    /\ ret = [exc |-> "none"]
    /\ dirs = {}
    /\ files = [p \in {OutPath.name} |-> NoFile]

Demote ==
    /\ pc = "idle"
    /\ \E content \in GuideContents, spine \in GuideSpines :
         /\ arg' = [op |-> "demote_headings", content |-> content, spine |-> spine]
         /\ ret' = [exc |-> "none", result |-> DemoteHeadings(content, spine)]
         /\ pc' = "returned"
    /\ UNCHANGED << dirs, files >>

NextDemote == Demote

SpecDemote == InitDemote /\ [][NextDemote]_vars

\* The kinds of line, read off the input
IsHeading(line) == HeadingMatch(line).matched

Level(line) == HeadingMatch(line).level

Title(line) == HeadingMatch(line).title

IsSpineH2(line, spine) ==
    IsHeading(line) /\ Level(line) = 2 /\ InSpine(Title(line), SpineNormalized(spine))

IsOtherH2(line, spine) ==
    IsHeading(line) /\ Level(line) = 2 /\ ~InSpine(Title(line), SpineNormalized(spine))

\* The flag before line i: the last H2 above line i is not a spine section.
Demoting(in, i, spine) ==
    \E j \in 1..(i - 1) :
        /\ IsOtherH2(in[j], spine)
        /\ \A k \in (j + 1)..(i - 1) : ~IsSpineH2(in[k], spine)

Relevel(line, n) == Hashes(n) \o << " " >> \o Title(line)

\* C8: demote_headings keeps every spine H2, turns every other H2 into an H3,
\* adds one level to every H3-H6 below an H2 that is no spine section up to
\* the next spine H2, and changes no other line; so every H2 of the output is
\* a spine section and the output has the lines of the input, in their order.
C8_DemoteHeadings ==
    arg.op = "demote_headings" =>
        LET in    == Split(arg.content)
            out   == Split(ret.result)
            spine == arg.spine
        IN  /\ Len(out) = Len(in)
            /\ \A i \in 1..Len(in) :
                 IF IsSpineH2(in[i], spine) THEN out[i] = in[i]
                 ELSE IF IsOtherH2(in[i], spine) THEN out[i] = Relevel(in[i], 3)
                 ELSE IF IsHeading(in[i]) /\ Demoting(in, i, spine)
                      THEN out[i] = Relevel(in[i], Level(in[i]) + 1)
                           /\ HashRun(out[i]) = Level(in[i]) + 1
                 ELSE out[i] = in[i]
            /\ \A i \in 1..Len(out) :
                 (IsHeading(out[i]) /\ Level(out[i]) = 2) => IsSpineH2(out[i], spine)

C8_Witness ==
    /\ arg.op = "demote_headings"
    /\ arg.spine = << << "A" >> >>
    /\ Split(arg.content) = << << "#", "#", " ", "b" >>,
                               << "#", "#", "#", " ", "A" >>,
                               << "#", "#", " ", "a", " " >> >>
    /\ Split(ret.result) = << << "#", "#", "#", " ", "b" >>,
                              << "#", "#", "#", "#", " ", "A" >>,
                              << "#", "#", " ", "a", " " >> >>

\* ------------------------------------------------------------------------
\* generate_metadata_json
\* ------------------------------------------------------------------------
StatNames == << "conT", "conTlp", "beta", "sigma2" >>

\* STATISTICS: the expected volumes of each statistic
STATISTICS == [stat \in {"conT", "conTlp", "beta", "sigma2"} |->
                 CASE stat = "conT" -> 5
                   [] stat = "conTlp" -> 5
                   [] stat = "beta" -> 23
                   [] stat = "sigma2" -> 1]

CONTRAST_LABELS ==
    << << "Intercept" >>, << "Sex" >>, << "CrossSectionalAge" >>,
       << "LongitudinalTime" >>, << "NIHScore" >> >>

\* f"Covariate_{i}" for i in range(6, 24)
BETA_LABELS == CONTRAST_LABELS \o [k \in 1..18 |-> << "Covariate_", ToString(k + 5) >>]

STAT_META ==
    [stat \in {"conT", "conTlp", "beta", "sigma2"} |->
       CASE stat = "conT" ->
              [display_name |-> "T-Statistics", colormap |-> "coolwarm", symmetric |-> TRUE,
               suggested_threshold |-> "2.0", labels |-> CONTRAST_LABELS]
         [] stat = "conTlp" ->
              [display_name |-> "-log10(p-values)", colormap |-> "plasma", symmetric |-> FALSE,
               suggested_threshold |-> "1.3", labels |-> CONTRAST_LABELS]
         [] stat = "beta" ->
              [display_name |-> "Beta Coefficients", colormap |-> "coolwarm", symmetric |-> TRUE,
               suggested_threshold |-> "None", labels |-> BETA_LABELS]
         [] stat = "sigma2" ->
              [display_name |-> "Residual Variance", colormap |-> "viridis", symmetric |-> FALSE,
               suggested_threshold |-> "None", labels |-> << << "Residual Variance" >> >>]]

\* str.upper() on the analysis names of main
Upper(a) == IF a = "des1" THEN "DES1" ELSE a

\* json.dump(metadata, f, indent=2): a file holding the object
JsonFile(obj) == [kind |-> "json", data |-> obj]

\* generate_metadata_json enumerating the labels after the first
GenerateMetadataJson_SkipFirst(hemi, analysis, stat, output_path, fs) ==
    LET meta     == STAT_META[stat]
        metadata == [name |-> << hemi, analysis, stat >>,
                     display_name |-> << meta.display_name, Upper(analysis) >>,
                     hemisphere |-> IF hemi = "lh" THEN "left" ELSE "right",
                     analysis |-> analysis,
                     colormap |-> meta.colormap,
                     symmetric |-> meta.symmetric,
                     suggested_threshold |-> meta.suggested_threshold,
                     nan_handling |-> "transparent",
                     volumes |-> [k \in 1..(Len(meta.labels) - 1) |->
                                    [index |-> k - 1, label |-> meta.labels[k + 1]]]]
    IN  [dirs  |-> fs.dirs \cup {output_path.parent},
         files |-> [fs.files EXCEPT ![output_path.name] = JsonFile(metadata)]]

GenerateMetadataJson(hemi, analysis, stat, output_path, fs) ==
    LET meta     == STAT_META[stat]
        metadata == [name |-> << hemi, analysis, stat >>,
                     display_name |-> << meta.display_name, Upper(analysis) >>,
                     hemisphere |-> IF hemi = "lh" THEN "left" ELSE "right",
                     analysis |-> analysis,
                     colormap |-> meta.colormap,
                     symmetric |-> meta.symmetric,
                     suggested_threshold |-> meta.suggested_threshold,
                     nan_handling |-> "transparent",
                     volumes |-> [k \in 1..Len(meta.labels) |->
                                    [index |-> k - 1, label |-> meta.labels[k]]]]
    IN  [dirs  |-> fs.dirs \cup {output_path.parent},
         files |-> [fs.files EXCEPT ![output_path.name] = JsonFile(metadata)]]

\* ------------------------------------------------------------------------
\* main
\*
\* pc is "main" while the loops run, "done" after the last print and
\* "aborted" when an exception has left main.  arg holds which inputs exist,
\* ret the position in the enumeration and the outcome of each work item
\* passed; the content of an input is read when its work item is reached.
\* ------------------------------------------------------------------------
BaseDir == "blmm"

Hemispheres == << "lh", "rh" >>

Analyses == << "des1" >>

\* The enumeration of main: the two geometry conversions, then for each
\* hemisphere and analysis the source directory and its statistics.
StatItems(hemi, ana) ==
    << [kind |-> "src_dir", hemi |-> hemi, ana |-> ana, stat |-> "none"] >>
    \o [k \in 1..Len(StatNames) |->
          [kind |-> "statistic", hemi |-> hemi, ana |-> ana, stat |-> StatNames[k]]]

WorkItems ==
    [k \in 1..Len(Hemispheres) |->
       [kind |-> "geometry", hemi |-> Hemispheres[k], ana |-> "none", stat |-> "none"]]
    \o Flatten([k \in 1..Len(Hemispheres) |->
                  Flatten([a \in 1..Len(Analyses) |-> StatItems(Hemispheres[k], Analyses[a])])])

GeometryOut(hemi) == [parent |-> BaseDir, name |-> << hemi, "geometry.bin.gz" >>]

StatOut(hemi, ana, stat) == [parent |-> BaseDir, name |-> << hemi, ana, stat, "bin.gz" >>]

JsonOut(hemi, ana, stat) == [parent |-> BaseDir, name |-> << hemi, ana, stat, "json" >>]

MainOutputs ==
    {GeometryOut(WorkItems[i].hemi).name : i \in {j \in DOMAIN WorkItems : WorkItems[j].kind = "geometry"}}
    \cup UNION {{StatOut(WorkItems[i].hemi, WorkItems[i].ana, WorkItems[i].stat).name,
                 JsonOut(WorkItems[i].hemi, WorkItems[i].ana, WorkItems[i].stat).name} :
                i \in {j \in DOMAIN WorkItems : WorkItems[j].kind = "statistic"}}

\* The surface files main may find: a whole triangle mesh, the same with a
\* wrong magic, and each of them cut inside its last face.
Triangle == [vertices |-> GridVertices(3), faces |-> << << 0, 1, 2 >> >>]

MainPialInputs ==
    {in \in PialInputs :
        /\ in.mesh = Triangle
        /\ in.comment = << 99 >>
        /\ in.cut \in {FullLen(in), FullLen(in) - 5}}

\* The .dat files main may find for a statistic: the expected volumes, one
\* volume fewer, and one sample too many.
MainDatLengths(stat) ==
    {STATISTICS[stat] * N_VERTICES, (STATISTICS[stat] - 1) * N_VERTICES,
     STATISTICS[stat] * N_VERTICES + 1}

ConstantArray(n) == [i \in 1..n |-> FOne]

\* Whether the input of work item i exists
InputExists(i) ==
    LET it == WorkItems[i]
    IN  CASE it.kind = "geometry" -> arg.pial_exists[it.hemi]
          [] it.kind = "src_dir" -> arg.dir_exists[it.hemi]
          [] it.kind = "statistic" -> arg.dir_exists[it.hemi] /\ arg.dat_exists[it.hemi][it.stat]

InitMain ==
    /\ pc = "main"
    /\ \E pe \in [{"lh", "rh"} -> BOOLEAN],
          de \in [{"lh", "rh"} -> BOOLEAN],
          fe \in [{"lh", "rh"} -> [{"conT", "conTlp", "beta", "sigma2"} -> BOOLEAN]] :
         /\ \A h \in {"lh", "rh"} : ~de[h] => \A st \in DOMAIN fe[h] : ~fe[h][st]
         /\ arg = [op |-> "main", pial_exists |-> pe, dir_exists |-> de, dat_exists |-> fe]
    /\ ret = [exc |-> "none", pos |-> 1, log |-> <<>>]
    /\ dirs = {BaseDir}
    /\ files = [p \in MainOutputs |-> NoFile]

AtItem(kind) == pc = "main" /\ ret.pos <= Len(WorkItems) /\ WorkItems[ret.pos].kind = kind

\* The outcome of the work item at ret.pos is o and the loop goes on n items on.
Passed(o, n) == ret' = [ret EXCEPT !.pos = @ + n, !.log = Append(@, [item |-> ret.pos, outcome |-> o])]

\* An exception leaves main: the run ends at this work item.
Aborted(e) ==
    /\ ret' = [ret EXCEPT !.exc = e, !.log = Append(@, [item |-> ret.pos, outcome |-> "raised"])]
    /\ pc' = "aborted"

ConvertGeometry ==
    /\ AtItem("geometry")
    /\ LET hemi == WorkItems[ret.pos].hemi
       IN  IF ~arg.pial_exists[hemi]
           THEN /\ Passed("skipped", 1)
                /\ UNCHANGED << pc, dirs, files >>
           ELSE \E in \in MainPialInputs :
                  LET r == ConvertPialToBrg1(StreamOf(in), GeometryOut(hemi), Fs)
                  IN  /\ dirs' = r.fs.dirs
                      /\ files' = r.fs.files
                      /\ IF r.exc = "none"
                         THEN Passed("converted", 1) /\ UNCHANGED pc
                         ELSE Aborted(r.exc)
    /\ UNCHANGED arg

EnterSrcDir ==
    /\ AtItem("src_dir")
    /\ IF arg.dir_exists[WorkItems[ret.pos].hemi]
       THEN Passed("entered", 1)
       ELSE Passed("skipped", 1 + Len(StatNames))
    /\ UNCHANGED << pc, arg, dirs, files >>

ConvertStatistic ==
    /\ AtItem("statistic")
    /\ LET it == WorkItems[ret.pos]
       IN  IF ~arg.dat_exists[it.hemi][it.stat]
           THEN /\ Passed("skipped", 1)
                /\ UNCHANGED << pc, dirs, files >>
           ELSE \E n \in MainDatLengths(it.stat) :
                  LET r == ConvertDatToBrs1(ConstantArray(n), StatOut(it.hemi, it.ana, it.stat),
                                            STATISTICS[it.stat], Fs)
                      g == GenerateMetadataJson(it.hemi, it.ana, it.stat,
                                                JsonOut(it.hemi, it.ana, it.stat), r.fs)
                  IN  IF r.exc = "none"
                      THEN /\ dirs' = g.dirs
                           /\ files' = g.files
                           /\ Passed(IF r.warned THEN "converted with warning" ELSE "converted", 1)
                           /\ UNCHANGED pc
                      ELSE /\ dirs' = r.fs.dirs
                           /\ files' = r.fs.files
                           /\ Aborted(r.exc)
    /\ UNCHANGED arg

Finish ==
    /\ pc = "main"
    /\ ret.pos > Len(WorkItems)
    /\ pc' = "done"
    /\ UNCHANGED << arg, ret, dirs, files >>

NextMain == ConvertGeometry \/ EnterSrcDir \/ ConvertStatistic \/ Finish

SpecMain == InitMain /\ [][NextMain]_vars

Attempted(i) == \E k \in 1..Len(ret.log) : ret.log[k].item = i

\* C1 (as claimed): when main has ended it has reached its end, and every
\* work item whose input exists has been attempted: an exception raised by
\* one conversion ends that conversion only.
C1_MalformedInputAbortsOneConversion ==
    pc \in {"done", "aborted"} =>
        /\ pc = "done"
        /\ \A i \in DOMAIN WorkItems : InputExists(i) => Attempted(i)

\* The statistics main has written both outputs of, as positions of ret.log
WrittenStats ==
    {k \in 1..Len(ret.log) :
        /\ WorkItems[ret.log[k].item].kind = "statistic"
        /\ ret.log[k].outcome \in {"converted", "converted with warning"}}

SidecarVolumes(k) ==
    LET it == WorkItems[ret.log[k].item]
    IN  files[JsonOut(it.hemi, it.ana, it.stat).name].data.volumes

HeaderVolumes(k) ==
    LET it == WorkItems[ret.log[k].item]
    IN  DecodeBrs1(files[StatOut(it.hemi, it.ana, it.stat).name].data).n_volumes

\* C9 (as claimed): for every statistic main has written both outputs of, the
\* sidecar lists as many volumes as the header of the STAT-CONTAINER counts.
C9_Claimed ==
    \A k \in WrittenStats : Len(SidecarVolumes(k)) = HeaderVolumes(k)

\* C9: for every statistic main has written both outputs of, the sidecar
\* lists one {index, label} entry per label of the statistic, as many as its
\* expected volumes, indexed from 0; that is the n_volumes of the header
\* exactly when the derived count is the expected one and no warning was
\* printed.
C9_SidecarListsExpectedVolumes ==
    \A k \in WrittenStats :
        LET stat == WorkItems[ret.log[k].item].stat
            vols == SidecarVolumes(k)
        IN  /\ Len(vols) = STATISTICS[stat]
            /\ \A j \in 1..Len(vols) : vols[j].index = j - 1
            /\ (Len(vols) = HeaderVolumes(k)) <=> (ret.log[k].outcome = "converted")

C9_Witness ==
    \E k \in WrittenStats :
        /\ ret.log[k].outcome = "converted with warning"
        /\ WorkItems[ret.log[k].item].stat = "beta"
        /\ Len(SidecarVolumes(k)) = 23
        /\ HeaderVolumes(k) = 22

=============================================================================
